---- MODULE Spec2Model ----
(***************************************************************************)
(* A model of js/app.js of My PDF Converter: the file selection and        *)
(* conversion flow (handleFileSelected, resetUI, convertFile and the four  *)
(* converters) and the three layout computations it contains: the canvas   *)
(* slicing loop of htmlStringToPdf, the line loop of convertTxt and the    *)
(* scale-to-fit placement of convertImage.                                 *)
(*                                                                         *)
(* Execution.  The page runs one task at a time.  An await hands control   *)
(* back to the event loop: each convertFile call in flight is recorded in  *)
(* calls with the collaborator promise it awaits, and a later task         *)
(* settles that promise.  Code between two awaits runs to completion: while *)
(* pc is not "idle" only the running call takes steps.                     *)
(*                                                                         *)
(* Lengths.  Page lengths are jsPDF points with two decimals (595.28 x     *)
(* 841.89 for A4), so they are kept in hundredths of a point               *)
(* ("centipoints", cpt).  The code's arithmetic is modelled over the       *)
(* rationals it denotes (no floating-point rounding): inside               *)
(* htmlStringToPdf every destination length is kept as the integer         *)
(*      length in cpt * canvas.width                                       *)
(* which makes imgH = canvas.height / (canvas.width / imgW) the exact      *)
(* integer canvas.height * imgW.  Division by a zero canvas.width gives    *)
(* the JavaScript values Infinity and NaN, which are kept as such.         *)
(***************************************************************************)
EXTENDS Integers, Sequences, FiniteSets, Bags, TLC

VARIABLES
    selectedFile,       \* let selectedFile: the current File, or null
    generatedPdfBlob,   \* let generatedPdfBlob: the Blob last produced, or null
    convertBtnDisabled, \* convertBtn.disabled
    filePreview,        \* filePreview is displayed
    downloadSection,    \* downloadSection is displayed
    downloadName,       \* downloadBtn's data-filename attribute
    statusMessage,      \* the status banner displayed: class and text
    progress,           \* the value last given to setProgress
    progressContainer,  \* progressContainer is displayed
    imagePreview,       \* the thumbnail: imagePreviewEl.src, container displayed
    readers,            \* thumbnail FileReaders that have not fired onload
    wrappers,           \* off-screen wrappers attached to document.body
    calls,              \* the convertFile calls that await a promise (a bag)
    running,            \* the convertFile call whose code is running, if any
    pc,                 \* position of the synchronous code that is running
    pageSize,           \* doc.internal.pageSize of the jsPDF document in use (cpt)
    docPages,           \* number of pages of the jsPDF document in use
    canvas,             \* htmlStringToPdf: the canvas html2canvas resolved with
    remaining,          \* htmlStringToPdf: let remaining
    srcY,               \* htmlStringToPdf: let srcY
    slices,             \* htmlStringToPdf: the doc.addImage calls made, in order
    lines,              \* convertTxt: const lines = doc.splitTextToSize(...)
    i,                  \* convertTxt: the loop index
    y,                  \* convertTxt: let y (cpt)
    textPages,          \* convertTxt: the doc.text calls made, page by page
    img,                \* convertImage: the loaded Image
    placed              \* convertImage: the doc.addImage calls made

h2pVars == <<canvas, remaining, srcY, slices>>
txtVars == <<lines, i, y, textPages>>
imgVars == <<img, placed>>
docVars == <<pageSize, docPages>>
frames == <<h2pVars, txtVars, imgVars, docVars>>
domVars == <<filePreview, downloadSection, downloadName, statusMessage,
             progressContainer, imagePreview>>
uiVars == <<selectedFile, generatedPdfBlob, convertBtnDisabled, domVars, readers>>
callVars == <<calls, running, wrappers>>
vars == <<pc, progress, uiVars, callVars, frames>>

----------------------------------------------------------------------------
(* Numbers *)

ToCpt(pt) == pt * 100

\* JavaScript numbers that occur: a finite value, Infinity, NaN.
Fin(v) == [k |-> "fin", v |-> v]
Infinity == [k |-> "inf", v |-> 0]
NaN == [k |-> "nan", v |-> 0]

\* x > 0 on JavaScript numbers (false for NaN).
Gt0(x) == x.k = "inf" \/ (x.k = "fin" /\ x.v > 0)

\* Math.min(x, p) for a finite p.
MathMin(x, p) ==
    CASE x.k = "nan" -> NaN
      [] x.k = "inf" -> Fin(p)
      [] OTHER -> Fin(IF x.v < p THEN x.v ELSE p)

\* (mutation of Minus: the subtraction is lost)
MinusLost(x, d) == x

\* x - d for a finite d.
Minus(x, d) == IF x.k = "fin" THEN Fin(x.v - d) ELSE x

\* Math.round(n / d) for n >= 0, d > 0: the nearest integer, halves up.
MathRound(n, d) == (2 * n + d) \div (2 * d)

\* ceil(n / d) for n >= 0, d > 0.
Ceil(n, d) == (n + d - 1) \div d

RECURSIVE GCD(_, _)
GCD(a, b) == IF b = 0 THEN a ELSE GCD(b, a % b)

\* A fraction num / den, den > 0.
Frac(n, d) == [num |-> n, den |-> d]
FracLeq(a, b) == a.num * b.den <= b.num * a.den
FracMin(a, b) == IF FracLeq(a, b) THEN a ELSE b

----------------------------------------------------------------------------
(* jsPDF documents *)

\* doc.internal.pageSize of new jsPDF({ unit: 'pt', format: 'a4' }), in cpt:
\* A4 is 595.28 x 841.89 pt; 595 x 842 is A4 in whole points.
A4 == [w |-> 59528, h |-> 84189]
A4Points == [w |-> 59500, h |-> 84200]
PageSizes == {A4, A4Points}

----------------------------------------------------------------------------
(* Files, the status banner *)

\* null; also the empty src of the thumbnail
null == <<>>

\* A File is its name, split at the dots.
Files ==
    { <<"report", "docx">>, <<"notes", "TXT">>, <<"page", "html">>,
      <<"photo", "png">>, <<"slides", "pdf">> }

\* String.prototype.toLowerCase on the name parts above
toLowerCase(str) == IF str = "TXT" THEN "txt" ELSE str

\* '.' + file.name.split('.').pop().toLowerCase()
getExtension(file) == "." \o toLowerCase(file[Len(file)])

ACCEPTED_EXTENSIONS == {".docx", ".txt", ".html", ".png", ".jpg", ".jpeg"}
IMAGE_EXTENSIONS == {".png", ".jpg", ".jpeg"}

\* (mutation of isValidFile: every file is accepted)
isValidFileAny(file) == TRUE

isValidFile(file) == getExtension(file) \in ACCEPTED_EXTENSIONS

\* selectedFile.name.replace(/\.[^/.]+$/, '') + '.pdf'
PdfName(file) ==
    (IF Len(file) > 1 THEN SubSeq(file, 1, Len(file) - 1) ELSE file) \o <<"pdf">>

\* A Blob is told apart by the file it was converted from.
BlobOf(file) == file

UnsupportedUpload == "Unsupported file type. Please upload .docx, .txt, .html, .png, .jpg, or .jpeg."
ConversionSuccessful == "Conversion successful! Your PDF is ready to download."

\* `Conversion failed: ${err.message || 'Unknown error'}. Please try again.`
ConversionFailed(message) == "Conversion failed: " \o message \o ". Please try again."

\* err.message of the errors the code makes, of a collaborator's error, and
\* of the TypeError of selectedFile.name on a null selectedFile
UnsupportedFileType == "Unsupported file type."
CouldNotLoadImage == "Could not load image."
CouldNotReadFile == "Could not read file."
CollaboratorError == "(a collaborator's error)"
NullTypeError == "Cannot read properties of null (reading 'name')"

\* showStatus(type, html)
showStatus(type, text) == [type |-> type, text |-> text]

\* hideStatus(): no banner is displayed (what a hidden banner holds is not kept)
hideStatus == [type |-> "", text |-> ""]

----------------------------------------------------------------------------
(* File selection and preview *)

\* handleFileSelected(file), from the file input's change or a drop
handleFileSelected(file) ==
    /\ pc = "idle"
    /\ IF ~isValidFile(file)
       THEN /\ statusMessage' = showStatus("error", UnsupportedUpload)
            /\ UNCHANGED <<selectedFile, generatedPdfBlob, convertBtnDisabled,
                           filePreview, downloadSection, imagePreview, readers>>
       ELSE /\ statusMessage' = hideStatus
            /\ selectedFile' = file
            /\ generatedPdfBlob' = null
            /\ downloadSection' = FALSE
            /\ filePreview' = TRUE
            /\ convertBtnDisabled' = FALSE
            /\ IF getExtension(file) \in IMAGE_EXTENSIONS
               THEN /\ readers' = readers \cup {file}
                    /\ UNCHANGED imagePreview
               ELSE /\ imagePreview' = [src |-> null, shown |-> FALSE]
                    /\ UNCHANGED readers
    /\ UNCHANGED <<downloadName, progressContainer, progress, pc, callVars, frames>>

\* reader.onload of the thumbnail reader of handleFileSelected(file)
ThumbnailOnload(file) ==
    /\ pc = "idle"
    /\ file \in readers
    /\ readers' = readers \ {file}
    /\ imagePreview' = [src |-> file, shown |-> TRUE]
    /\ UNCHANGED <<selectedFile, generatedPdfBlob, convertBtnDisabled, filePreview,
                   downloadSection, downloadName, statusMessage,
                   progressContainer, progress, pc, callVars, frames>>

\* resetUI(), from removeFileBtn or convertAnotherBtn
resetUI ==
    /\ pc = "idle"
    /\ selectedFile' = null
    /\ generatedPdfBlob' = null
    /\ filePreview' = FALSE
    /\ imagePreview' = [src |-> null, shown |-> FALSE]
    /\ progressContainer' = FALSE
    /\ downloadSection' = FALSE
    /\ convertBtnDisabled' = TRUE
    /\ statusMessage' = hideStatus
    /\ UNCHANGED <<downloadName, readers, progress, pc, callVars, frames>>

----------------------------------------------------------------------------
(* convertFile *)

MaxCalls == 2

\* what a call awaits: a promise of a collaborator that a later task settles
AwaitPcs == {"docx_read", "docx_extract", "html_read", "render", "txt_read",
             "img_read", "img_decode"}

\* A convertFile call: the file it was given and the promise it awaits.
Call(file, at) == [file |-> file, pc |-> at]
NoCall == Call(null, "none")

\* the calls awaiting at a promise
Awaiting(at) == {c \in BagToSet(calls) : c.pc = at}

\* the calls in flight
InFlight == BagToSet(calls) \cup (IF running = NoCall THEN {} ELSE {running})
NumInFlight == BagCardinality(calls) + (IF running = NoCall THEN 0 ELSE 1)

\* call c stops awaiting (its code runs on); call c awaits again
Resumed(c) == calls (-) SetToBag({c})
Suspended(c) == calls (+) SetToBag({c})

NoH2pFrame ==
    /\ canvas = [width |-> 0, height |-> 0]
    /\ remaining = Fin(0) /\ srcY = 0 /\ slices = <<>>
NoTxtFrame == lines = <<>> /\ i = 0 /\ y = 0 /\ textPages = <<>>
NoImgFrame == img = [naturalWidth |-> 0, naturalHeight |-> 0] /\ placed = <<>>
NoDoc == pageSize = [w |-> 0, h |-> 0] /\ docPages = 0

\* the locals of a call that returned or threw are gone
DropFrames ==
    /\ canvas' = [width |-> 0, height |-> 0]
    /\ remaining' = Fin(0) /\ srcY' = 0 /\ slices' = <<>>
    /\ lines' = <<>> /\ i' = 0 /\ y' = 0 /\ textPages' = <<>>
    /\ img' = [naturalWidth |-> 0, naturalHeight |-> 0] /\ placed' = <<>>
    /\ pageSize' = [w |-> 0, h |-> 0] /\ docPages' = 0

\* convertFile's catch and finally blocks, for an error err
Catch(message) ==
    /\ progress' = 0
    /\ progressContainer' = FALSE
    /\ statusMessage' = showStatus("error", ConversionFailed(message))
    /\ convertBtnDisabled' = FALSE
    /\ UNCHANGED <<selectedFile, generatedPdfBlob, filePreview, downloadSection,
                   downloadName, imagePreview, readers>>

\* (mutation of Return: showDownloadSection is not reached)
ReturnNoDownload(c) ==
    /\ generatedPdfBlob' = BlobOf(c.file)
    /\ progress' = 100
    /\ statusMessage' = showStatus("success", ConversionSuccessful)
    /\ convertBtnDisabled' = FALSE
    /\ UNCHANGED <<selectedFile, filePreview, imagePreview, readers,
                   progressContainer, downloadSection, downloadName>>

\* Call c of convertFile after  pdfBlob = await convertX(selectedFile)
\* returned, with its finally block.  showDownloadSection reads selectedFile.name: with a
\* null selectedFile that is a TypeError, caught by convertFile's catch.
Return(c) ==
    /\ generatedPdfBlob' = BlobOf(c.file)
    /\ IF selectedFile = null
       THEN /\ progress' = 0
            /\ progressContainer' = FALSE
            /\ statusMessage' = showStatus("error", ConversionFailed(NullTypeError))
            /\ UNCHANGED <<downloadSection, downloadName>>
       ELSE /\ progress' = 100
            /\ downloadName' = PdfName(selectedFile)
            /\ downloadSection' = TRUE
            /\ statusMessage' = showStatus("success", ConversionSuccessful)
            /\ UNCHANGED progressContainer
    /\ convertBtnDisabled' = FALSE
    /\ UNCHANGED <<selectedFile, filePreview, imagePreview, readers>>

\* the first await of the converter convertFile calls for an extension, and
\* the setProgress it makes before it
FirstAwait(ext) ==
    CASE ext = ".docx" -> [pc |-> "docx_read", progress |-> 15]
      [] ext = ".txt" -> [pc |-> "txt_read", progress |-> 20]
      [] ext = ".html" -> [pc |-> "html_read", progress |-> 20]
      [] OTHER -> [pc |-> "img_read", progress |-> 20]

\* convertFile(), from a click on convertBtn (a disabled button gets none)
convertFile ==
    /\ pc = "idle"
    /\ ~convertBtnDisabled
    /\ IF selectedFile = null
       THEN UNCHANGED <<convertBtnDisabled, progressContainer, downloadSection,
                        statusMessage, progress, calls>>
       ELSE LET ext == getExtension(selectedFile)
                known == ext \in {".docx", ".txt", ".html"} \cup IMAGE_EXTENSIONS
            IN  /\ downloadSection' = FALSE
                /\ IF known
                   THEN /\ NumInFlight < MaxCalls
                        /\ convertBtnDisabled' = TRUE
                        /\ progressContainer' = TRUE
                        /\ statusMessage' = hideStatus
                        /\ progress' = FirstAwait(ext).progress
                        /\ calls' = Suspended(Call(selectedFile, FirstAwait(ext).pc))
                   ELSE \* throw new Error('Unsupported file type.')
                        /\ convertBtnDisabled' = FALSE
                        /\ progressContainer' = FALSE
                        /\ statusMessage' =
                               showStatus("error", ConversionFailed(UnsupportedFileType))
                        /\ progress' = 0
                        /\ UNCHANGED calls
    /\ UNCHANGED <<selectedFile, generatedPdfBlob, filePreview, downloadName,
                   imagePreview, readers, running, wrappers, pc, frames>>

\* A task that settles the promise call c awaits, the call not going on to a
\* loop: its continuation runs in this one step.
Idle == pc = "idle"
StaysIdle == UNCHANGED <<pc, running, frames>>

\* call c goes on to its next await: only the progress bar moves
Awaits(c, next, value) ==
    /\ calls' = Resumed(c) (+) SetToBag({Call(c.file, next)})
    /\ progress' = value
    /\ UNCHANGED uiVars

\* call c ends in convertFile's catch
Throws(c, message) ==
    /\ calls' = Resumed(c)
    /\ Catch(message)

----------------------------------------------------------------------------
(* convertDocx, convertHtml *)

\* convertDocx: await file.arrayBuffer() settles
DocxRead(c, ok) ==
    /\ Idle /\ c \in Awaiting("docx_read")
    /\ IF ok THEN Awaits(c, "docx_extract", 30) ELSE Throws(c, CollaboratorError)
    /\ UNCHANGED wrappers
    /\ StaysIdle

\* convertDocx: await mammoth.convertToHtml(...) settles; then
\* htmlStringToPdf(rawHtml) up to its await html2canvas(...)
DocxExtract(c, ok) ==
    /\ Idle /\ c \in Awaiting("docx_extract")
    /\ IF ok
       THEN Awaits(c, "render", 65) /\ wrappers' = wrappers + 1
       ELSE Throws(c, CollaboratorError) /\ UNCHANGED wrappers
    /\ StaysIdle

\* convertHtml: await file.text() settles; then htmlStringToPdf(htmlText) up
\* to its await html2canvas(...)
HtmlRead(c, ok) ==
    /\ Idle /\ c \in Awaiting("html_read")
    /\ IF ok
       THEN Awaits(c, "render", 65) /\ wrappers' = wrappers + 1
       ELSE Throws(c, CollaboratorError) /\ UNCHANGED wrappers
    /\ StaysIdle

----------------------------------------------------------------------------
(* htmlStringToPdf *)

\* (mutation of RenderRejects: the wrapper is removed after the try block,
\* not in a finally)
RenderRejectsNoFinally(c) ==
    /\ Idle /\ c \in Awaiting("render")
    /\ UNCHANGED wrappers
    /\ Throws(c, CollaboratorError)
    /\ StaysIdle

\* await html2canvas(wrapper, ...) rejects: finally removeChild(wrapper), and
\* convertFile catches
RenderRejects(c) ==
    /\ Idle /\ c \in Awaiting("render")
    /\ wrappers' = wrappers - 1
    /\ Throws(c, CollaboratorError)
    /\ StaysIdle

\* await html2canvas(wrapper, ...) resolves with a canvas; setProgress(85);
\* new jsPDF({ unit: 'pt', format: 'a4' })
RenderResolves(c, cv, size) ==
    /\ Idle /\ c \in Awaiting("render")
    /\ running' = c
    /\ calls' = Resumed(c)
    /\ pc' = "h2p_canvas"
    /\ progress' = 85
    /\ canvas' = cv
    /\ pageSize' = size
    /\ docPages' = 1
    /\ UNCHANGED <<remaining, srcY, slices, txtVars, imgVars, uiVars, wrappers>>

marginHtml == 0

\* const imgW = pageWidth - margin * 2   (cpt)
imgW == pageSize.w - ToCpt(marginHtml) * 2

\* pageHeight in the loop's unit, cpt * canvas.width
pageHeight == pageSize.h * canvas.width

\* (mutation of imgH: the canvas height in pixels is taken for the height on
\* the page, the division by ratio is lost)
imgHInPixels == Fin(ToCpt(canvas.height) * canvas.width)

\* const ratio = canvas.width / imgW; const imgH = canvas.height / ratio
\* in the loop's unit: (canvas.height * imgW / canvas.width) * canvas.width
imgH ==
    IF canvas.width = 0
    THEN (IF canvas.height = 0 THEN NaN ELSE Infinity)
    ELSE Fin(canvas.height * imgW)

\* (mutation of sliceH: every slice is a full page, the Math.min is lost)
sliceHFullPage == IF remaining.k = "nan" THEN NaN ELSE Fin(pageHeight)

\* const sliceH = Math.min(remaining, pageHeight)
sliceH == MathMin(remaining, pageHeight)

\* const slicePx = Math.round(sliceH * ratio): a length v of the loop's unit
\* times ratio is (v / canvas.width) * (canvas.width / imgW) = v / imgW px
slicePx == MathRound(sliceH.v, imgW)

\* ctx.drawImage(canvas, ...) throws InvalidStateError when the source canvas
\* has a zero width or height.
drawImageThrows == canvas.width = 0 \/ canvas.height = 0

\* (mutation of AddsPage: a page is added before every slice)
AddsPageAlways == TRUE

\* if (srcY > 0) doc.addPage()
AddsPage == srcY > 0

\* let remaining = imgH; let srcY = 0
SliceStart ==
    /\ pc = "h2p_canvas"
    /\ remaining' = imgH
    /\ srcY' = 0
    /\ pc' = "slicing"
    /\ UNCHANGED <<canvas, slices, docVars, txtVars, imgVars, progress, uiVars, callVars>>

\* One pass of  while (remaining > 0) { ... }
\* addImageOk: whether doc.addImage returned (it may throw).
SliceIter(addImageOk) ==
    /\ pc = "slicing"
    /\ Gt0(remaining)
    /\ IF drawImageThrows
       THEN /\ pc' = "h2p_throw"
            /\ UNCHANGED <<remaining, srcY, slices, docPages>>
       ELSE /\ docPages' = IF AddsPage THEN docPages + 1 ELSE docPages
            /\ IF addImageOk
               THEN /\ slices' = Append(slices,
                                    [srcY |-> srcY, sliceH |-> sliceH.v,
                                     slicePx |-> slicePx, page |-> docPages'])
                    /\ srcY' = srcY + sliceH.v
                    /\ remaining' = Minus(remaining, sliceH.v)
                    /\ pc' = "slicing"
               ELSE /\ pc' = "h2p_throw"
                    /\ UNCHANGED <<remaining, srcY, slices>>
    /\ UNCHANGED <<canvas, pageSize, txtVars, imgVars, progress, uiVars, callVars>>

\* The loop condition fails: setProgress(95); return doc.output('blob')
SliceExit(outputOk) ==
    /\ pc = "slicing"
    /\ ~Gt0(remaining)
    /\ progress' = 95
    /\ pc' = IF outputOk THEN "h2p_return" ELSE "h2p_throw"
    /\ UNCHANGED <<frames, uiVars, callVars>>

\* finally { document.body.removeChild(wrapper) }, and convertFile goes on
\* with the blob or the error
H2pSettle ==
    /\ pc \in {"h2p_return", "h2p_throw"}
    /\ wrappers' = wrappers - 1
    /\ IF pc = "h2p_return" THEN Return(running) ELSE Catch(CollaboratorError)
    /\ DropFrames
    /\ running' = NoCall
    /\ pc' = "idle"
    /\ UNCHANGED calls

----------------------------------------------------------------------------
(* convertTxt *)

marginTxt == 50
lineHeight == 15
firstBaseline == 20

\* (mutation of TopOfPage: the first baseline is one line height below the
\* top margin)
TopOfPageLineHeight == ToCpt(marginTxt) + ToCpt(lineHeight)

\* y = margin + 20   (cpt)
TopOfPage == ToCpt(marginTxt) + ToCpt(firstBaseline)

\* (mutation of NeedsNewPage: the bottom margin is left out of the test)
NeedsNewPageNoMargin == y + ToCpt(lineHeight) > pageSize.h

\* if (y + lineHeight > pageHeight - margin)
NeedsNewPage == y + ToCpt(lineHeight) > pageSize.h - ToCpt(marginTxt)

\* (mutation of CurrentLine: the index is one behind)
CurrentLineBehind == lines[IF i = 0 THEN 1 ELSE i]

\* lines[i]
CurrentLine == lines[i + 1]

\* (mutation of DrawText: the line is drawn on the first page)
DrawTextFirstPage(pages, line, at) ==
    [pages EXCEPT ![1] = Append(@, [line |-> line, y |-> at])]

\* doc.text(line, margin, at): the line goes on the document's current
\* (last) page
DrawText(pages, line, at) ==
    [pages EXCEPT ![Len(pages)] = Append(@, [line |-> line, y |-> at])]

\* the wrapped lines of a text are told apart by their position in it
WrappedLines(n) == [k \in 1..n |-> k]

\* await file.text() settles; setProgress(50); new jsPDF(...);
\* const lines = doc.splitTextToSize(text, maxWidth); let y = margin + 20
TxtRead(c, ok, n, size) ==
    /\ Idle /\ c \in Awaiting("txt_read")
    /\ IF ok
       THEN /\ running' = c
            /\ calls' = Resumed(c)
            /\ pc' = "txt_loop"
            /\ progress' = 50
            /\ pageSize' = size
            /\ docPages' = 1
            /\ lines' = WrappedLines(n)
            /\ textPages' = << <<>> >>
            /\ y' = TopOfPage
            /\ i' = 0
            /\ UNCHANGED <<h2pVars, imgVars, uiVars>>
       ELSE /\ Throws(c, CollaboratorError)
            /\ StaysIdle
    /\ UNCHANGED wrappers

\* (mutation of LineProgress: the lines left are counted, not the lines done)
LineProgressCountdown == 50 + MathRound((Len(lines) - i) * 40, Len(lines))

\* 50 + Math.round((i / lines.length) * 40)
LineProgress == 50 + MathRound(i * 40, Len(lines))

\* One pass of  for (let i = 0; i < lines.length; i++) { ... }
\* textOk: whether doc.text returned (it may throw).
TxtIter(textOk) ==
    /\ pc = "txt_loop"
    /\ i < Len(lines)
    /\ LET newPage == NeedsNewPage
           at == IF newPage THEN TopOfPage ELSE y
           pages == IF newPage THEN Append(textPages, <<>>) ELSE textPages
       IN  /\ docPages' = Len(pages)
           /\ IF textOk
              THEN /\ textPages' = DrawText(pages, CurrentLine, at)
                   /\ y' = at + ToCpt(lineHeight)
                   /\ i' = i + 1
                   /\ progress' = LineProgress
                   /\ pc' = "txt_loop"
              ELSE /\ textPages' = pages
                   /\ y' = at
                   /\ pc' = "txt_throw"
                   /\ UNCHANGED <<i, progress>>
    /\ UNCHANGED <<lines, pageSize, h2pVars, imgVars, uiVars, callVars>>

\* i = lines.length: setProgress(95); return doc.output('blob')
TxtExit(outputOk) ==
    /\ pc = "txt_loop"
    /\ ~(i < Len(lines))
    /\ progress' = 95
    /\ pc' = IF outputOk THEN "txt_return" ELSE "txt_throw"
    /\ UNCHANGED <<frames, uiVars, callVars>>

\* convertFile goes on with the blob or the error
TxtSettle ==
    /\ pc \in {"txt_return", "txt_throw"}
    /\ IF pc = "txt_return" THEN Return(running) ELSE Catch(CollaboratorError)
    /\ DropFrames
    /\ running' = NoCall
    /\ pc' = "idle"
    /\ UNCHANGED <<calls, wrappers>>

----------------------------------------------------------------------------
(* convertImage *)

marginImg == 40

\* await readFileAsDataURL(file) settles; setProgress(50); new jsPDF(...);
\* new Promise(...): img.src = dataUrl starts the decoding
ImgRead(c, ok) ==
    /\ Idle /\ c \in Awaiting("img_read")
    /\ IF ok THEN Awaits(c, "img_decode", 50) ELSE Throws(c, CouldNotReadFile)
    /\ UNCHANGED wrappers
    /\ StaysIdle

\* img.onerror: reject(new Error('Could not load image.'))
ImgOnerror(c) ==
    /\ Idle /\ c \in Awaiting("img_decode")
    /\ Throws(c, CouldNotLoadImage)
    /\ UNCHANGED wrappers
    /\ StaysIdle

\* img.onload is called with the image decoded
ImgOnload(c, image, size) ==
    /\ Idle /\ c \in Awaiting("img_decode")
    /\ running' = c
    /\ calls' = Resumed(c)
    /\ pc' = "img_onload"
    /\ img' = image
    /\ pageSize' = size
    /\ docPages' = 1
    /\ UNCHANGED <<placed, h2pVars, txtVars, progress, uiVars, wrappers>>

\* const maxW = pageWidth - margin * 2; const maxH = pageHeight - margin * 2
maxW == pageSize.w - ToCpt(marginImg) * 2
maxH == pageSize.h - ToCpt(marginImg) * 2

\* (mutation of scale: the cap at 1 is lost)
scaleUncapped ==
    FracMin(Frac(maxW, img.naturalWidth), Frac(maxH, img.naturalHeight))

\* const scale = Math.min(maxW / imgW, maxH / imgH, 1), as the fraction of
\* cpt on the page per image pixel (1 is 100 cpt per pixel)
scale ==
    FracMin(FracMin(Frac(maxW, img.naturalWidth), Frac(maxH, img.naturalHeight)),
            Frac(ToCpt(1), 1))

\* getExtension(file).replace('.', '').toUpperCase(), 'JPG' becoming 'JPEG'
ImageFormat(file) ==
    LET ext == getExtension(file)
    IN  CASE ext = ".png" -> "PNG"
          [] ext = ".jpg" -> "JPEG"
          [] ext = ".jpeg" -> "JPEG"
          [] OTHER -> ext

\* imgW *= scale; imgH *= scale; x = margin + (maxW - imgW) / 2;
\* y = margin + (maxH - imgH) / 2.  The four lengths are kept in the unit
\* cpt / (2 * scale.den), in which all of them are integers.
Placement ==
    [format |-> ImageFormat(running.file),
     unit |-> 2 * scale.den,
     w |-> 2 * img.naturalWidth * scale.num,
     h |-> 2 * img.naturalHeight * scale.num,
     x |-> 2 * ToCpt(marginImg) * scale.den
             + (maxW * scale.den - img.naturalWidth * scale.num),
     y |-> 2 * ToCpt(marginImg) * scale.den
             + (maxH * scale.den - img.naturalHeight * scale.num),
     page |-> docPages]

\* The body of img.onload: doc.addImage(dataUrl, format, x, y, imgW, imgH);
\* setProgress(95); resolve(doc.output('blob')).
\* embedOk: whether doc.addImage and doc.output returned.  When one throws,
\* the error leaves the event handler: the promise convertImage returned is
\* neither resolved nor rejected, and nothing is left that would settle it.
ImgEmbed(embedOk) ==
    /\ pc = "img_onload"
    /\ IF embedOk
       THEN /\ placed' = Append(placed, Placement)
            /\ progress' = 95
            /\ pc' = "img_resolve"
            /\ UNCHANGED <<img, docVars, h2pVars, txtVars, calls, running>>
       ELSE /\ calls' = Suspended(Call(running.file, "img_orphaned"))
            /\ DropFrames
            /\ running' = NoCall
            /\ pc' = "idle"
            /\ UNCHANGED progress
    /\ UNCHANGED <<uiVars, wrappers>>

\* convertFile goes on with the blob the promise was resolved with
ImgSettle ==
    /\ pc = "img_resolve"
    /\ Return(running)
    /\ DropFrames
    /\ running' = NoCall
    /\ pc' = "idle"
    /\ UNCHANGED <<calls, wrappers>>

----------------------------------------------------------------------------
(* The page *)

\* what the collaborators hand back in the model of the whole page: canvases
\* of html2canvas (scale 1.5 of a 794 px wide wrapper; empty ones), numbers
\* of wrapped lines, decoded images
RenderedCanvases ==
    { [width |-> 1191, height |-> 0], [width |-> 0, height |-> 150],
      [width |-> 1191, height |-> 900], [width |-> 1191, height |-> 2000] }
TextLengths == {0, 2}
LoadedImages ==
    { [naturalWidth |-> 100, naturalHeight |-> 100],
      [naturalWidth |-> 2000, naturalHeight |-> 1000] }

\* the page as loaded: the state resetUI restores
Init ==
    /\ selectedFile = null
    /\ generatedPdfBlob = null
    /\ convertBtnDisabled = TRUE
    /\ filePreview = FALSE
    /\ downloadSection = FALSE
    /\ downloadName = null
    /\ statusMessage = hideStatus
    /\ progress = 0
    /\ progressContainer = FALSE
    /\ imagePreview = [src |-> null, shown |-> FALSE]
    /\ readers = {}
    /\ wrappers = 0
    /\ calls = EmptyBag
    /\ running = NoCall
    /\ pc = "idle"
    /\ NoH2pFrame /\ NoTxtFrame /\ NoImgFrame /\ NoDoc

Next ==
    \/ \E file \in Files : handleFileSelected(file)
    \/ \E file \in Files : ThumbnailOnload(file)
    \/ resetUI
    \/ convertFile
    \/ \E c \in BagToSet(calls), ok \in BOOLEAN : DocxRead(c, ok)
    \/ \E c \in BagToSet(calls), ok \in BOOLEAN : DocxExtract(c, ok)
    \/ \E c \in BagToSet(calls), ok \in BOOLEAN : HtmlRead(c, ok)
    \/ \E c \in BagToSet(calls) : RenderRejects(c)
    \/ \E c \in BagToSet(calls), cv \in RenderedCanvases, size \in {A4} :
           RenderResolves(c, cv, size)
    \/ SliceStart
    \/ \E ok \in BOOLEAN : SliceIter(ok)
    \/ \E ok \in BOOLEAN : SliceExit(ok)
    \/ H2pSettle
    \/ \E c \in BagToSet(calls), ok \in BOOLEAN, n \in TextLengths, size \in {A4} :
           TxtRead(c, ok, n, size)
    \/ \E ok \in BOOLEAN : TxtIter(ok)
    \/ \E ok \in BOOLEAN : TxtExit(ok)
    \/ TxtSettle
    \/ \E c \in BagToSet(calls), ok \in BOOLEAN : ImgRead(c, ok)
    \/ \E c \in BagToSet(calls) : ImgOnerror(c)
    \/ \E c \in BagToSet(calls), image \in LoadedImages, size \in {A4} :
           ImgOnload(c, image, size)
    \/ \E ok \in BOOLEAN : ImgEmbed(ok)
    \/ ImgSettle

Spec == Init /\ [][Next]_vars

----------------------------------------------------------------------------
(* One conversion on its own, for many results of its collaborator *)

\* The page while the first convertFile call, made on a freshly selected
\* file, is in flight and awaits at pc (no other event has happened).
Converting(file, at, value, attached) ==
    /\ selectedFile = file
    /\ generatedPdfBlob = null
    /\ convertBtnDisabled = TRUE
    /\ filePreview = TRUE
    /\ downloadSection = FALSE
    /\ downloadName = null
    /\ statusMessage = hideStatus
    /\ progress = value
    /\ progressContainer = TRUE
    /\ imagePreview = [src |-> null, shown |-> FALSE]
    /\ readers = IF getExtension(file) \in IMAGE_EXTENSIONS THEN {file} ELSE {}
    /\ wrappers = attached
    /\ calls = EmptyBag
    /\ running = Call(file, at)

MaxCanvasHeight == 3400
CanvasWidths == {0, 595, 794, 1191}
Canvases == [width : CanvasWidths, height : 0..MaxCanvasHeight]

\* htmlStringToPdf when  await html2canvas(...)  has resolved with a canvas
InitSlice ==
    /\ Converting(<<"page", "html">>, "render", 85, 1)
    /\ pc = "h2p_canvas"
    /\ canvas \in Canvases
    /\ pageSize \in PageSizes
    /\ docPages = 1
    /\ remaining = Fin(0) /\ srcY = 0 /\ slices = <<>>
    /\ NoTxtFrame /\ NoImgFrame

NextSlice ==
    \/ SliceStart
    \/ \E ok \in BOOLEAN : SliceIter(ok)
    \/ \E ok \in BOOLEAN : SliceExit(ok)

SpecSlice == InitSlice /\ [][NextSlice]_vars

\* A synchronous loop runs to completion: the engine always takes its next step.
SpecSliceFair == SpecSlice /\ WF_vars(NextSlice)

MaxLines == 100

\* convertTxt when  await file.text()  has resolved, up to the loop
InitTxt ==
    /\ Converting(<<"notes", "TXT">>, "txt_read", 50, 0)
    /\ pc = "txt_loop"
    /\ \E n \in 0..MaxLines : lines = WrappedLines(n)
    /\ pageSize \in PageSizes
    /\ docPages = 1
    /\ textPages = << <<>> >>
    /\ y = TopOfPage
    /\ i = 0
    /\ NoH2pFrame /\ NoImgFrame

NextTxt ==
    \/ \E ok \in BOOLEAN : TxtIter(ok)
    \/ \E ok \in BOOLEAN : TxtExit(ok)

SpecTxt == InitTxt /\ [][NextTxt]_vars

MaxNatural == 1600
NaturalSizes == {1, 2, 3, 100, 300, 515, 516, 600, 761, 762, 800, 1000, 1200, MaxNatural}
Images == [naturalWidth : NaturalSizes, naturalHeight : NaturalSizes]

\* convertImage when img.onload is called
InitImage ==
    /\ \E file \in {<<"photo", "png">>, <<"pic", "jpg">>} :
           Converting(file, "img_decode", 50, 0)
    /\ pc = "img_onload"
    /\ img \in Images
    /\ placed = <<>>
    /\ pageSize \in PageSizes
    /\ docPages = 1
    /\ NoH2pFrame /\ NoTxtFrame

NextImage == \E ok \in BOOLEAN : ImgEmbed(ok)

SpecImage == InitImage /\ [][NextImage]_vars

MaxProgressLines == 24

\* The page when the user starts a conversion only while none is in
\* flight: the progress bar is then written by one convertFile call at a
\* time.  Texts of every length up to MaxProgressLines are read.
NextOne ==
    \/ \E file \in Files : handleFileSelected(file)
    \/ \E file \in Files : ThumbnailOnload(file)
    \/ resetUI
    \/ NumInFlight = 0 /\ convertFile
    \/ \E c \in BagToSet(calls), ok \in BOOLEAN : DocxRead(c, ok)
    \/ \E c \in BagToSet(calls), ok \in BOOLEAN : DocxExtract(c, ok)
    \/ \E c \in BagToSet(calls), ok \in BOOLEAN : HtmlRead(c, ok)
    \/ \E c \in BagToSet(calls) : RenderRejects(c)
    \/ \E c \in BagToSet(calls), cv \in RenderedCanvases, size \in {A4} :
           RenderResolves(c, cv, size)
    \/ SliceStart
    \/ \E ok \in BOOLEAN : SliceIter(ok)
    \/ \E ok \in BOOLEAN : SliceExit(ok)
    \/ H2pSettle
    \/ \E c \in BagToSet(calls), ok \in BOOLEAN, n \in 0..MaxProgressLines,
          size \in {A4} :
           TxtRead(c, ok, n, size)
    \/ \E ok \in BOOLEAN : TxtIter(ok)
    \/ \E ok \in BOOLEAN : TxtExit(ok)
    \/ TxtSettle
    \/ \E c \in BagToSet(calls), ok \in BOOLEAN : ImgRead(c, ok)
    \/ \E c \in BagToSet(calls) : ImgOnerror(c)
    \/ \E c \in BagToSet(calls), image \in LoadedImages, size \in {A4} :
           ImgOnload(c, image, size)
    \/ \E ok \in BOOLEAN : ImgEmbed(ok)
    \/ ImgSettle

SpecOne == Init /\ [][NextOne]_vars

----------------------------------------------------------------------------
(* Claims about the slicing loop *)

RECURSIVE SumSliceH(_)
SumSliceH(s) == IF s = <<>> THEN 0 ELSE Head(s).sliceH + SumSliceH(Tail(s))

\* htmlStringToPdf returned a blob for a canvas with positive width and height
SlicedPositiveCanvas ==
    pc = "h2p_return" /\ canvas.width > 0 /\ canvas.height > 0

\* C1: for every canvas with positive width and height, when the loop has
\* completed the slice heights sum to exactly H = canvas.height / ratio, every
\* slice but the last is exactly one page high, the number of slices and of
\* PDF pages is ceil(H / P), and H = P gives one slice of height P.
C1_SlicesPartitionImage ==
    SlicedPositiveCanvas =>
        /\ SumSliceH(slices) = imgH.v
        /\ \A k \in 1..(Len(slices) - 1) : slices[k].sliceH = pageHeight
        /\ Len(slices) = Ceil(imgH.v, pageHeight)
        /\ docPages = Len(slices)
        /\ (imgH.v = pageHeight =>
                Len(slices) = 1 /\ slices[1].sliceH = pageHeight)

\* a completed run of three or more slices whose last slice is a partial page
C1_Witness ==
    /\ SlicedPositiveCanvas
    /\ Len(slices) >= 3
    /\ slices[Len(slices)].sliceH < pageHeight

\* the boundary case of C1: H = P exactly, loop completed
C1_BoundaryReached == SlicedPositiveCanvas /\ imgH.v = pageHeight

ScenarioCanvas == [width |-> 794, height |-> 3000]
Scenario == pc = "h2p_return" /\ pageSize = A4Points /\ canvas = ScenarioCanvas

\* a length of pt points in the loop's unit
Pt(pt) == ToCpt(pt) * canvas.width

\* C2 as stated: page 595x842, margins 0, image 794x3000 px gives 4 slices,
\* three of height 842 and a last one of height 474.
C2_Original ==
    Scenario =>
        /\ Len(slices) = 4
        /\ \A k \in 1..3 : slices[k].sliceH = Pt(842)
        /\ slices[4].sliceH = Pt(474)

\* C2 (amended): page 595x842, margins 0, image 794x3000 px gives 3 slices:
\* the image is H = 3000 * 595 / 794 (about 2248.11) units high on the page,
\* so two slices of height 842 and a last one of height H - 2 * 842.
C2_ScenarioThreeSlices ==
    Scenario =>
        /\ Len(slices) = 3
        /\ docPages = 3
        /\ slices[1].sliceH = Pt(842)
        /\ slices[2].sliceH = Pt(842)
        /\ slices[3].sliceH = 3000 * ToCpt(595) - 2 * Pt(842)

C2_Witness == Scenario /\ Len(slices) > 0

\* C3 as stated: a canvas whose width or height is zero never gets a PDF:
\* htmlStringToPdf does not return for it and adds no slice.
C3_EmptyCanvasFails ==
    (canvas.width = 0 \/ canvas.height = 0) =>
        pc # "h2p_return" /\ slices = <<>>

C11_SlicesInOrderOnePerPage ==
    /\ \A k \in 1..Len(slices) : slices[k].page = k
    /\ slices # <<>> => slices[1].srcY = 0
    /\ \A k \in 1..(Len(slices) - 1) :
           /\ slices[k].srcY < slices[k + 1].srcY
           /\ slices[k + 1].srcY = slices[k].srcY + slices[k].sliceH
    /\ pc = "slicing" /\ slices # <<>> => docPages = Len(slices)
    /\ pc = "h2p_return" /\ slices # <<>> => docPages = Len(slices)

\* a document of two slices or more was returned, the second on page 2
C11_Witness ==
    /\ pc = "h2p_return"
    /\ Len(slices) >= 2
    /\ slices[2].page = 2
    /\ slices[2].srcY > 0

\* C12 as stated: the pixel rows drawImage reads for a slice lie inside the
\* source canvas: srcY * ratio >= 0 and srcY * ratio + slicePx <= canvas.height
\* (a length v of the loop's unit times ratio is v / imgW pixels).
C12_SliceRowsInsideCanvas ==
    \A k \in 1..Len(slices) :
        /\ slices[k].srcY >= 0
        /\ slices[k].srcY + slices[k].slicePx * imgW <= canvas.height * imgW

----------------------------------------------------------------------------
(* Claims about the line loop *)

RECURSIVE Flatten(_)
Flatten(pages) ==
    IF pages = <<>> THEN <<>> ELSE Head(pages) \o Flatten(Tail(pages))

\* the lines drawn so far, page by page and top to bottom
DrawnLines == [k \in 1..Len(Flatten(textPages)) |-> Flatten(textPages)[k].line]

\* C5: the lines drawn, read page by page in page order and top to bottom,
\* are the wrapped lines in their order, each once: the first i of them
\* while the loop runs, all of them when convertTxt returns.
C5_LinesDrawnOnceInOrder ==
    /\ pc \in {"txt_loop", "txt_return"} => DrawnLines = SubSeq(lines, 1, i)
    /\ pc = "txt_return" => DrawnLines = lines

\* convertTxt returned a document of three pages or more
C5_Witness == pc = "txt_return" /\ Len(textPages) >= 3 /\ Len(lines) > 0

\* C6: on every page the baselines strictly increase, and every drawn line
\* has baseline + lineHeight <= pageHeight - bottom margin.
C6_BaselinesFitPage ==
    pc \in {"txt_loop", "txt_return", "txt_throw"} =>
        \A p \in 1..Len(textPages) :
            /\ \A k \in 1..Len(textPages[p]) :
                   textPages[p][k].y + ToCpt(lineHeight)
                       <= pageSize.h - ToCpt(marginTxt)
            /\ \A k \in 1..(Len(textPages[p]) - 1) :
                   textPages[p][k].y < textPages[p][k + 1].y

\* a second page holding several lines: it was filled after a page break
C6_Witness ==
    /\ pc = "txt_return"
    /\ Len(textPages) >= 2
    /\ Len(textPages[2]) >= 2

\* C7: when convertTxt returns no page has zero lines, unless there are no
\* wrapped lines, and then the document is one page with zero lines; while
\* the loop runs only the first page can be empty (before its first line).
C7_NoEmptyPage ==
    /\ pc = "txt_return" /\ lines # <<>> =>
           \A p \in 1..Len(textPages) : textPages[p] # <<>>
    /\ pc = "txt_return" /\ lines = <<>> => textPages = << <<>> >>
    /\ pc \in {"txt_loop", "txt_return"} =>
           /\ docPages = Len(textPages)
           /\ \A p \in 2..Len(textPages) : textPages[p] # <<>>

\* the empty text returned one empty page
C7_WitnessEmpty == pc = "txt_return" /\ lines = <<>> /\ textPages = << <<>> >>

\* a page was added and filled
C7_Witness == pc = "txt_return" /\ Len(textPages) >= 2 /\ lines # <<>>

\* the pages convertTxt has drawn on
TextPagesBuilt == pc \in {"txt_loop", "txt_return", "txt_throw"}

\* every line after the first of a page is lineHeight below the one before,
\* and a page was closed exactly when its next line did not fit: the line
\* after the last of a closed page would have had y + lineHeight beyond
\* pageHeight - margin, and every line that follows another on its page fits
LineSpacingAndBreaks ==
    \A p \in 1..Len(textPages) :
        LET page == textPages[p]
        IN  /\ \A k \in 1..(Len(page) - 1) :
                   page[k + 1].y = page[k].y + ToCpt(lineHeight)
            /\ \A k \in 2..Len(page) :
                   page[k].y + ToCpt(lineHeight) <= pageSize.h - ToCpt(marginTxt)
            /\ p < Len(textPages) =>
                   /\ page # <<>>
                   /\ page[Len(page)].y + 2 * ToCpt(lineHeight)
                          > pageSize.h - ToCpt(marginTxt)

\* C13 as stated: the first line of every page is drawn at baseline
\* top margin + lineHeight, each following line lineHeight below the one
\* before, and a page is started exactly when y + lineHeight exceeds
\* pageHeight - bottom margin.
C13_Original ==
    TextPagesBuilt =>
        /\ \A p \in 1..Len(textPages) :
               textPages[p] # <<>> =>
                   textPages[p][1].y = ToCpt(marginTxt) + ToCpt(lineHeight)
        /\ LineSpacingAndBreaks

\* C13 (amended): the first line of every page is drawn at baseline
\* top margin + 20 (70 pt, not top margin + lineHeight = 65 pt); the rest as
\* stated.
C13_FirstBaselineMarginPlus20 ==
    TextPagesBuilt =>
        /\ \A p \in 1..Len(textPages) :
               textPages[p] # <<>> =>
                   textPages[p][1].y = ToCpt(marginTxt) + ToCpt(firstBaseline)
        /\ LineSpacingAndBreaks

\* a second page was started and its first two lines drawn
C13_Witness ==
    /\ TextPagesBuilt
    /\ Len(textPages) >= 2
    /\ Len(textPages[2]) >= 2
    /\ textPages[2][1].y = ToCpt(70)
    /\ textPages[2][2].y = ToCpt(85)

----------------------------------------------------------------------------
(* Claims about the image placement *)

\* the one doc.addImage call of img.onload, once made
ImagePlaced == pc = "img_resolve"
ThePlacement == placed[1]

\* a length of cpt centipoints in the unit of the placement p
InUnit(p, cpt) == cpt * p.unit

\* w : h in lowest terms
Aspect(w, h) == <<w \div GCD(w, h), h \div GCD(w, h)>>

\* C8: for every image with positive natural width and height exactly one
\* image is placed, on the document's one page; it is not larger than the
\* natural size, has the natural aspect ratio, lies inside the usable area
\* [margin, margin + maxW] x [margin, margin + maxH] with equal gaps left and
\* right and equal gaps above and below, and is as large as these allow
\* (natural size, or the full usable width, or the full usable height):
\* its size is the natural size times min(maxW / w, maxH / h, 1).
C8_ImageFitsCentered ==
    ImagePlaced /\ img.naturalWidth > 0 /\ img.naturalHeight > 0 =>
        /\ Len(placed) = 1 /\ docPages = 1 /\ ThePlacement.page = 1
        /\ LET p == ThePlacement
               natW == InUnit(p, ToCpt(img.naturalWidth))
               natH == InUnit(p, ToCpt(img.naturalHeight))
               left == InUnit(p, ToCpt(marginImg))
               top == InUnit(p, ToCpt(marginImg))
               right == InUnit(p, pageSize.w - ToCpt(marginImg))
               bottom == InUnit(p, pageSize.h - ToCpt(marginImg))
           IN  /\ p.w > 0 /\ p.h > 0
               /\ p.w <= natW /\ p.h <= natH
               /\ Aspect(p.w, p.h) = Aspect(img.naturalWidth, img.naturalHeight)
               /\ left <= p.x /\ p.x + p.w <= right
               /\ top <= p.y /\ p.y + p.h <= bottom
               /\ p.x - left = right - (p.x + p.w)
               /\ p.y - top = bottom - (p.y + p.h)
               /\ \/ p.w = natW /\ p.h = natH
                  \/ p.w = right - left
                  \/ p.h = bottom - top

\* an image larger than the usable area was scaled down to its full height
C8_Witness ==
    /\ ImagePlaced
    /\ ThePlacement.h = InUnit(ThePlacement, pageSize.h - ToCpt(marginImg) * 2)
    /\ ThePlacement.w < InUnit(ThePlacement, pageSize.w - ToCpt(marginImg) * 2)
    /\ ThePlacement.x > InUnit(ThePlacement, ToCpt(marginImg))

----------------------------------------------------------------------------
(* Claims about the conversion flow *)

\* C4 as stated: every conversion started reaches Done or Failed once its
\* collaborators have returned or thrown: a convertFile call in flight is
\* either running or awaits a promise that a collaborator has yet to settle.
C4_EveryConversionSettles ==
    \A c \in InFlight : c = running \/ c.pc \in AwaitPcs

InvalidUploadBanner == showStatus("error", UnsupportedUpload)

\* C9: selectedFile is null or has an accepted extension, the banner of
\* convertFile's 'Unsupported file type.' error is never shown, and a step
\* that puts up handleFileSelected's banner for an unsupported file changes
\* neither selectedFile, generatedPdfBlob, the convert button nor the
\* download section.
C9_OnlyAcceptedFilesSelected ==
    /\ [](selectedFile = null \/ getExtension(selectedFile) \in ACCEPTED_EXTENSIONS)
    /\ [](statusMessage.text # ConversionFailed(UnsupportedFileType))
    /\ [][statusMessage' = InvalidUploadBanner /\ statusMessage # InvalidUploadBanner
            => UNCHANGED <<selectedFile, generatedPdfBlob, convertBtnDisabled,
                           downloadSection, downloadName>>]_vars

\* an unsupported file was offered after a conversion: the banner is up, the
\* converted file is still selected and its download still offered
C9_Witness ==
    /\ statusMessage = InvalidUploadBanner
    /\ selectedFile # null
    /\ generatedPdfBlob # null
    /\ downloadSection
    /\ ~convertBtnDisabled

----------------------------------------------------------------------------
(* Claims about the page under overlapping events *)

\* C14 as stated: whenever the download section is visible, generatedPdfBlob
\* was converted from the selected file and the download is named after it.
C14_DownloadIsOfSelectedFile ==
    downloadSection =>
        /\ selectedFile # null
        /\ generatedPdfBlob = BlobOf(selectedFile)
        /\ downloadName = PdfName(selectedFile)

\* C15 as stated: at most one conversion is in flight, and while one is the
\* convert button is disabled.
C15_OneConversionInFlight ==
    /\ NumInFlight <= 1
    /\ NumInFlight = 1 => convertBtnDisabled

\* C16 as stated: when no conversion is in flight the convert button is
\* enabled exactly when a file is selected, and with no file selected
\* generatedPdfBlob is null.
C16_ButtonEnabledIffFileSelected ==
    NumInFlight = 0 =>
        /\ ~convertBtnDisabled <=> selectedFile # null
        /\ selectedFile = null => generatedPdfBlob = null

\* C17 as stated: whenever the image preview is visible the selected file is
\* an image and the thumbnail shown was read from it.
C17_PreviewIsOfSelectedImage ==
    imagePreview.shown =>
        /\ selectedFile # null
        /\ getExtension(selectedFile) \in IMAGE_EXTENSIONS
        /\ imagePreview.src = selectedFile

----------------------------------------------------------------------------
(* Claims about the progress bar and the off-screen wrapper *)

ConversionSucceeded ==
    /\ statusMessage = showStatus("success", ConversionSuccessful)
    /\ generatedPdfBlob # null
    /\ downloadSection

ConversionFailedShown ==
    /\ statusMessage.type = "error"
    /\ ~progressContainer

H2pPcs == {"h2p_canvas", "slicing", "h2p_return", "h2p_throw"}
H2pCallsOpen ==
    BagCardinality([c \in Awaiting("render") |-> CopiesIn(c, calls)])
        + (IF pc \in H2pPcs THEN 1 ELSE 0)

\* C19: the wrappers attached to document.body are exactly those of the
\* htmlStringToPdf calls that have not settled: each is removed once, on
\* return and on every throw, and with no HTML or DOCX conversion in flight
\* none is attached.
C19_WrappersRemoved ==
    /\ wrappers = H2pCallsOpen
    /\ (\A c \in InFlight : getExtension(c.file) \notin {".html", ".docx"})
           => wrappers = 0

\* an HTML or DOCX conversion has completed and left no wrapper behind
C19_Witness ==
    /\ NumInFlight = 0
    /\ wrappers = 0
    /\ downloadSection
    /\ generatedPdfBlob # null
    /\ getExtension(generatedPdfBlob) \in {".html", ".docx"}

============================================================================
